---- MODULE Spec2Model ----
(***************************************************************************)
(* Model of src/main.py (black hole simulation) as the source is written.  *)
(*                                                                         *)
(* main().  main() calls create_disk (l.167) and create_ring (l.168),      *)
(* which main.py does not define, so every run that gets through the two   *)
(* create_sphere calls ends with NameError at l.167.  Were that call       *)
(* defined, l.173 would raise UnboundLocalError: camera_pos, star_pos and  *)
(* star_vel are assigned in main() (augmented assignments at l.183-189,    *)
(* 195, 196) without a `global` statement, so they are locals of main()    *)
(* that nothing binds, and l.173, 183-189, 192, 199 and 220 read them.     *)
(* No run of main() therefore executes a statement of l.168-228: the frame *)
(* loop, its event handling, physics update, draws and pygame.quit() are   *)
(* never executed, and they have no actions here.  Spec is main() from its *)
(* entry to the exception that ends it.  The counters iters, calls, cmds   *)
(* and the list frame record loop steps; no step of main() moves them.     *)
(*                                                                         *)
(* Input.  Once the display exists (l.62) the window system can queue      *)
(* events for the program; pygame.event.get() (l.177) is what would fetch  *)
(* them.  `pending` holds them; main() never reads it.                     *)
(*                                                                         *)
(* draw_background.  The function of l.2-15 is defined at module level     *)
(* and can be called on its own.  SpecBackground applies it once to drawn  *)
(* arguments: a context with some live GPU objects, a program, a           *)
(* projection and a view matrix.  Its initial states are arguments of the  *)
(* function, not states of main().                                         *)
(*                                                                         *)
(* Matrices.  A view matrix is kept as the three arguments of look_at and  *)
(* the projection as a tag; camera vectors hold multiples of 0.5 and are   *)
(* in fixed point with unit 1/2.                                           *)
(***************************************************************************)
EXTENDS Integers, Sequences, FiniteSets, TLC

\* ------------------------------------------------------------------ bounds
\* events that arrive while main() runs
MaxEvents == 2
\* GPU objects live in the context handed to draw_background
MaxBuffers == 4
MaxVaos == 2
MaxPrograms == 3
\* camera positions of the view handed to draw_background: strafe and advance
\* steps away from l.55
MaxStrafe == 1
MaxAdvance == 1

\* ------------------------------------------------------- camera parameters
\* pyrr Vector3 holding multiples of 0.5: fixed point, an integer n stands for n/2
FxOne == 2

FxAdd(u, v) == <<u[1] + v[1], u[2] + v[2], u[3] + v[3]>>

\* camera_pos = Vector3([0.0, 0.0, 20.0])
camera_pos_0 == <<0, 0, 20 * FxOne>>

\* camera_front = Vector3([0.0, 0.0, -1.0])
camera_front_0 == <<0, 0, -FxOne>>

\* camera_up = Vector3([0.0, 1.0, 0.0])
camera_up_0 == <<0, FxOne, 0>>

\* Matrix44.look_at(eye, target, up), kept as its three arguments
LookAt(eye, target, up) == [eye |-> eye, target |-> target, up |-> up]

NoView == LookAt(<<0, 0, 0>>, <<0, 0, 0>>, <<0, 0, 0>>)

\* ------------------------------------------------------------------ events
Keys == {"w", "s", "a", "d", "x"}

Events ==
    {[type |-> "QUIT", key |-> "none"]}
    \cup {[type |-> "KEYDOWN", key |-> k] : k \in Keys}
    \cup {[type |-> "KEYUP", key |-> "w"], [type |-> "MOUSEMOTION", key |-> "none"]}

\* ------------------------------------------------------------ render state
\* Matrix44.identity()
Identity == "identity"

NoUniforms == [model |-> "unset", view |-> NoView, proj |-> "unset"]

\* prog['model'].write, prog['view'].write, prog['proj'].write
WriteUniforms(model, v, p) == [model |-> model, view |-> v, proj |-> p]

\* ------------------------------------------------------------------- state
VARIABLES
    pc,          \* position in main(), or in draw_background
    running,     \* the local `running` of main()
    proj,        \* projection matrix: "unset" or "perspective"
    view,        \* view matrix, as the arguments of look_at
    pending,     \* events queued for the program and not fetched
    window,      \* "none", "open" (pygame display and GL context live), "closed"
    resources,   \* GPU objects created so far: buffers, vertex arrays, programs
    uniforms,    \* the last model/view/proj written to the background program
    frame,       \* GL draw and clear calls made, in order
    iters,       \* completed iterations of the while loop
    calls,       \* number of event drains, events drained, physics updates and draws so far
    cmds,        \* events handled so far: per camera key, and those without effect
    raised_at    \* the step an uncaught exception left the code from, or "none"

vars == <<pc, running, proj, view, pending, window, resources, uniforms, frame, iters,
          calls, cmds, raised_at>>

glVars == <<resources, uniforms, frame>>

\* the statements of main() before the loop, l.160-173
StartupPcs == {"init_window", "create_blackhole", "create_star", "create_disk",
               "create_ring", "create_prog_bg", "matrices"}

\* the state in which main() is entered
Init ==
    /\ pc = "init_window"
    /\ running = FALSE
    /\ proj = "unset"
    /\ view = NoView
    /\ pending = <<>>
    /\ window = "none"
    /\ resources = [buffers |-> 0, vaos |-> 0, programs |-> 0]
    /\ uniforms = NoUniforms
    /\ frame = <<>>
    /\ iters = 0
    /\ calls = [drain |-> 0, event |-> 0, step |-> 0, draw |-> 0]
    /\ cmds = [w |-> 0, s |-> 0, a |-> 0, d |-> 0, other |-> 0]
    /\ raised_at = "none"

\* ---------------------------------------------------------------- start-up
\* ctx = init_window(); clock = pygame.time.Clock(); running = True
InitWindow ==
    /\ pc = "init_window"
    /\ window' = "open"
    /\ running' = TRUE
    /\ pc' = "create_blackhole"
    /\ UNCHANGED <<raised_at, proj, view, pending, glVars, iters, calls, cmds>>

\* create_sphere: two buffers, one program, one vertex array
CreateSphere(res) ==
    [res EXCEPT !.buffers = @ + 2, !.programs = @ + 1, !.vaos = @ + 1]

CreateBlackhole ==
    /\ pc = "create_blackhole"
    /\ resources' = CreateSphere(resources)
    /\ pc' = "create_star"
    /\ UNCHANGED <<raised_at, running, proj, view, pending, window, uniforms, frame, iters,
                   calls, cmds>>

CreateStar ==
    /\ pc = "create_star"
    /\ resources' = CreateSphere(resources)
    /\ pc' = "create_disk"
    /\ UNCHANGED <<raised_at, running, proj, view, pending, window, uniforms, frame, iters,
                   calls, cmds>>

\* mutant: a failed start-up is tried again
AfterStartupFailure_retry == "init_window"

\* where control goes when a start-up step raises: main() has no handler
AfterStartupFailure == "raised"

\* GPU objects when a call inside create_sphere raises: the first ctx.buffer
\* (nothing made yet), the second (one buffer), ctx.program (two buffers) or
\* ctx.vertex_array (two buffers and the program)
SpherePartial(res) ==
    { res,
      [res EXCEPT !.buffers = @ + 1],
      [res EXCEPT !.buffers = @ + 2],
      [res EXCEPT !.buffers = @ + 2, !.programs = @ + 1] }

\* the event queues that extend q by events arrived since, up to the bound
Arrived(q) ==
    { r \in UNION {[1..n -> Events] : n \in 0..MaxEvents} :
        Len(r) >= Len(q) /\ SubSeq(r, 1, Len(q)) = q }

\* a start-up step raises: a pygame/moderngl call fails, create_disk or
\* create_ring is not defined (NameError), or l.173 reads main()'s unbound local
\* camera_pos (UnboundLocalError). init_window may already have opened the
\* display; create_sphere keeps what it had created; l.172 has bound proj when
\* l.173 raises. When init_window raises after set_mode (l.62) has opened the
\* display (set_caption, create_context or Clock fails), events may have been
\* queued in between. At create_disk this is the only outcome, so the positions
\* after it are never reached.
StartupFails ==
    /\ pc \in StartupPcs
    /\ pc' = AfterStartupFailure
    /\ raised_at' = pc
    /\ window' \in (IF pc = "init_window" THEN {"none", "open"} ELSE {window})
    /\ resources' \in (IF pc \in {"create_blackhole", "create_star"}
                       THEN SpherePartial(resources) ELSE {resources})
    /\ proj' \in (IF pc = "matrices" THEN {proj, "perspective"} ELSE {proj})
    /\ pending' \in (IF pc = "init_window" /\ window' = "open"
                     THEN Arrived(pending) ELSE {pending})
    /\ UNCHANGED <<running, view, uniforms, frame, iters, calls, cmds>>

\* the window system queues an event for the running program; nothing in
\* l.160-167 fetches it
EventArrives ==
    /\ window = "open"
    /\ pc \in StartupPcs
    /\ Len(pending) < MaxEvents
    /\ \E ev \in Events : pending' = Append(pending, ev)
    /\ UNCHANGED <<pc, raised_at, running, proj, view, window, glVars, iters, calls, cmds>>

Next ==
    \/ InitWindow
    \/ CreateBlackhole
    \/ CreateStar
    \/ StartupFails
    \/ EventArrives

Spec == Init /\ [][Next]_vars

\* --------------------------------------------------------- draw_background
\* camera positions: l.55 moved by whole strafe and advance steps of 0.5
Eyes ==
    { FxAdd(camera_pos_0, <<x, 0, z>>) :
        x \in -MaxStrafe..MaxStrafe, z \in -MaxAdvance..MaxAdvance }

\* draw_background(ctx, prog, proj, view) is entered: ctx holds some live GPU
\* objects, prog is one of its programs with its uniforms unset or written by an
\* earlier call, view and proj are the arguments
InitBackground ==
    /\ pc = "draw_background"
    /\ running = TRUE
    /\ proj = "perspective"
    /\ view \in {LookAt(e, FxAdd(e, camera_front_0), camera_up_0) : e \in Eyes}
    /\ pending = <<>>
    /\ window = "open"
    /\ resources \in [buffers : 0..MaxBuffers, vaos : 0..MaxVaos, programs : 1..MaxPrograms]
    /\ uniforms \in {NoUniforms,
                     WriteUniforms(Identity,
                                   LookAt(camera_pos_0, FxAdd(camera_pos_0, camera_front_0),
                                          camera_up_0),
                                   "perspective")}
    /\ frame = <<>>
    /\ iters = 0
    /\ calls = [drain |-> 0, event |-> 0, step |-> 0, draw |-> 0]
    /\ cmds = [w |-> 0, s |-> 0, a |-> 0, d |-> 0, other |-> 0]
    /\ raised_at = "none"

\* GPU objects after one draw_background: ctx.buffer (l.10) and
\* ctx.simple_vertex_array (l.11) build a buffer and a vertex array; the function
\* releases neither
BackgroundResources(res) == [res EXCEPT !.buffers = @ + 1, !.vaos = @ + 1]

\* draw_background returns: buffer and vertex array built, the three uniforms
\* written (l.12-14), the quad rendered (l.15)
DrawBackground ==
    /\ pc = "draw_background"
    /\ resources' = BackgroundResources(resources)
    /\ uniforms' = WriteUniforms(Identity, view, proj)
    /\ frame' = Append(frame, "background")
    /\ calls' = [calls EXCEPT !.draw = @ + 1]
    /\ pc' = "returned"
    /\ UNCHANGED <<raised_at, running, proj, view, pending, window, iters, cmds>>

\* the uniforms when one of the three writes or the render call raises: none,
\* model, model and view, or all three written
PartialWrites ==
    { uniforms,
      [uniforms EXCEPT !.model = Identity],
      [uniforms EXCEPT !.model = Identity, !.view = view],
      WriteUniforms(Identity, view, proj) }

\* what a call that raises leaves behind: nothing (l.10 raises), the buffer
\* (l.11 raises), or the buffer and the vertex array with some of the uniforms
\* written (l.12-15 raise)
FailedBackground ==
    {[res |-> resources, uni |-> uniforms],
     [res |-> [resources EXCEPT !.buffers = @ + 1], uni |-> uniforms]}
    \cup {[res |-> BackgroundResources(resources), uni |-> u] : u \in PartialWrites}

\* a moderngl call inside draw_background raises and the exception leaves the
\* function
DrawBackgroundFails ==
    /\ pc = "draw_background"
    /\ pc' = "raised"
    /\ raised_at' = "draw_background"
    /\ \E f \in FailedBackground : resources' = f.res /\ uniforms' = f.uni
    /\ UNCHANGED <<running, proj, view, pending, window, frame, iters, calls, cmds>>

NextBackground ==
    \/ DrawBackground
    \/ DrawBackgroundFails

SpecBackground == InitBackground /\ [][NextBackground]_vars

C10_InitFailureIsFatal ==
    /\ raised_at \in StartupPcs =>
          /\ pc = "raised"
          /\ iters = 0
          /\ calls = [drain |-> 0, event |-> 0, step |-> 0, draw |-> 0]
          /\ cmds = [w |-> 0, s |-> 0, a |-> 0, d |-> 0, other |-> 0]
          /\ frame = <<>>
    /\ pc \in StartupPcs =>
          /\ raised_at = "none"
          /\ calls = [drain |-> 0, event |-> 0, step |-> 0, draw |-> 0]

C10_Witness ==
    /\ pc = "raised"
    /\ raised_at = "create_disk"
    /\ window = "open"
    /\ resources = [buffers |-> 4, vaos |-> 2, programs |-> 2]

====
